---- MODULE Spec2Model ----
(***************************************************************************)
(* Model of pipeline_scripts/evaluate/script.py: the evaluation step that  *)
(* unpacks model.tar.gz, unpickles model.pkl, reads two metrics and writes *)
(* evaluation.json.  One process, one pass; the file system is the state.  *)
(***************************************************************************)
EXTENDS Integers, Sequences, FiniteSets, TLC

\* ------------------------------------------------------------------ bounds
\* longest archive member list that is enumerated
MaxMembers == 2
\* number of successive invocations on one file system
MaxRuns == 2

\* ------------------------------------------------------- paths and names
processing_dir == "/opt/ml/processing"
model_dir == "/opt/ml/processing/model/"
output_dir == "/opt/ml/processing/evaluation"
Paths == {processing_dir, model_dir, output_dir}

ArchiveName == "model.tar.gz"
PickleName == "model.pkl"
OtherName == "xgboost-model"
Names == {ArchiveName, PickleName, OtherName}

MaeKey == "valid-mae"
RmseKey == "valid-rmse"
MetricKeys == {MaeKey, RmseKey}

\* ---------------------------------------------------------- metric values
\* A metric value is a number of hundredths tagged with its Python type: a
\* built-in float, or a numpy.float32 (numeric, but unknown to json.dumps).
PyFloat(h) == [type |-> "float", h |-> h]
NpFloat(h) == [type |-> "numpy.float32", h |-> h]
Values == {PyFloat(123), PyFloat(450), NpFloat(78)}

\* ----------------------------------------------------------- file contents
Absent == [kind |-> "absent"]
Garbage == [kind |-> "bytes"]            \* neither a tar stream nor a pickle
Pkl(obj) == [kind |-> "pkl", obj |-> obj]
Tar(members) == [kind |-> "targz", members |-> members]
Member(name, content) == [name |-> name, content |-> content]

\* the objects a pickle can hold: with or without a metrics attribute
NoMetricsObj == [hasMetrics |-> FALSE, metrics |-> <<>>]
MetricsObj(m) == [hasMetrics |-> TRUE, metrics |-> m]
MetricMaps == UNION {[S -> Values] : S \in SUBSET MetricKeys}
Objects == {NoMetricsObj} \cup {MetricsObj(m) : m \in MetricMaps}
PklContents == {Garbage} \cup {Pkl(o) : o \in Objects}

\* what may already lie in the model directory under the name model.pkl
StalePkl == Pkl(MetricsObj((MaeKey :> PyFloat(450)) @@ (RmseKey :> PyFloat(123))))
\* the archives that can sit inside an archive under the name model.tar.gz
InnerArchives == {Garbage, Tar(<<>>), Tar(<<Member(PickleName, StalePkl)>>)}

MembersNamed(n) ==
    IF n = PickleName THEN {Member(n, c) : c \in PklContents}
    ELSE IF n = ArchiveName THEN {Member(n, c) : c \in InnerArchives}
    ELSE {Member(n, Garbage)}
AllMembers == UNION {MembersNamed(n) : n \in Names}

SeqsUpTo(S, n) == UNION {[1..k -> S] : k \in 0..n}
DistinctNames(ms) == \A i, j \in 1..Len(ms) : i # j => ms[i].name # ms[j].name
Archives == {Tar(ms) : ms \in {s \in SeqsUpTo(AllMembers, MaxMembers) : DistinctNames(s)}}

\* ------------------------------------------------------------ formatting
DigitChar(d) == <<"0", "1", "2", "3", "4", "5", "6", "7", "8", "9">>[d + 1]

RECURSIVE Digits(_)
Digits(n) == IF n < 10 THEN <<DigitChar(n)>>
             ELSE Digits(n \div 10) \o <<DigitChar(n % 10)>>

\* float.__repr__ of h/100: shortest form, at least one fractional digit
FloatRepr(h) ==
    LET f == h % 100
    IN  Digits(h \div 100) \o <<".">> \o
        (IF f % 10 = 0 THEN <<DigitChar(f \div 10)>>
         ELSE <<DigitChar(f \div 10), DigitChar(f % 10)>>)

\* '%f' % x: six fractional digits; accepts anything float() accepts
FormatF(v) ==
    Digits(v.h \div 100) \o <<".">> \o
    <<DigitChar((v.h % 100) \div 10), DigitChar(v.h % 10), "0", "0", "0", "0">>

\* a Python dict keeps insertion order: a sequence of key/value items
Dict(items) == [type |-> "dict", items |-> items]
Item(k, v) == [k |-> k, v |-> v]
Quoted(k) == <<"\"", k, "\"">>

\* json.dumps(obj) with the default separators (', ' and ': ').  The result
\* is [ok, text]; ok is FALSE when the encoder raises TypeError.
RECURSIVE Dumps(_)
RECURSIVE DumpsItems(_, _)
DumpsItems(items, i) ==
    IF i > Len(items) THEN [ok |-> TRUE, text |-> <<>>]
    ELSE LET v == Dumps(items[i].v)
             rest == DumpsItems(items, i + 1)
         IN  IF ~v.ok \/ ~rest.ok THEN [ok |-> FALSE, text |-> <<>>]
             ELSE [ok |-> TRUE,
                   text |-> (IF i > 1 THEN <<", ">> ELSE <<>>) \o
                            Quoted(items[i].k) \o <<": ">> \o v.text \o rest.text]
Dumps(v) ==
    IF v.type = "dict"
    THEN LET body == DumpsItems(v.items, 1)
         IN  IF body.ok THEN [ok |-> TRUE, text |-> <<"{">> \o body.text \o <<"}">>]
             ELSE body
    ELSE IF v.type = "float" THEN [ok |-> TRUE, text |-> FloatRepr(v.h)]
    ELSE [ok |-> FALSE, text |-> <<>>]

\* ------------------------------------------------------------ file system
\* kinds: path -> "absent" | "dir" | "file".  The root of the paths exists.
Parent(p) == processing_dir
HasParent(p) == p # processing_dir

\* variant: mkdir without exist_ok
ExistOk_False == FALSE
ExistOk == TRUE
Parents == TRUE

\* pathlib.Path(p).mkdir(parents, exist_ok): [ok, kinds]
RECURSIVE Mkdir(_, _, _, _)
Mkdir(kinds, p, parents, exist_ok) ==
    IF kinds[p] # "absent"
    THEN [ok |-> exist_ok /\ kinds[p] = "dir", kinds |-> kinds]
    ELSE IF ~HasParent(p) \/ kinds[Parent(p)] = "dir"
    THEN [ok |-> TRUE, kinds |-> [kinds EXCEPT ![p] = "dir"]]
    ELSE IF kinds[Parent(p)] = "file" \/ ~parents
    THEN [ok |-> FALSE, kinds |-> kinds]
    ELSE LET up == Mkdir(kinds, Parent(p), TRUE, TRUE)
         IN  IF up.ok THEN [ok |-> TRUE, kinds |-> [up.kinds EXCEPT ![p] = "dir"]]
             ELSE up

\* os.listdir(model_dir)
ListDir(fs) == {n \in Names : fs[n].kind # "absent"}

\* tar.extractall(path=model_dir): the members are written in archive order,
\* each to model_dir/<name> (opened "wb").  A member named model.tar.gz
\* replaces the archive that is being read; from then on a read of the
\* archive either is still served from buffered data or raises (before the
\* next target is opened, or after it, leaving that target truncated).  The result is the set of
\* possible [ok, files].
RECURSIVE ExtractFrom(_, _, _, _)
ExtractFrom(fs, ms, i, clobbered) ==
    IF i > Len(ms) THEN {[ok |-> TRUE, files |-> fs]}
    ELSE LET m == ms[i]
             written == [fs EXCEPT ![m.name] = m.content]
             torn == [fs EXCEPT ![m.name] = Garbage]
         IN  ExtractFrom(written, ms, i + 1, clobbered \/ m.name = ArchiveName)
             \cup (IF clobbered THEN {[ok |-> FALSE, files |-> fs]} ELSE {})
             \cup (IF clobbered \/ m.name = ArchiveName
                   THEN {[ok |-> FALSE, files |-> torn]} ELSE {})
ExtractAll(fs, ms) == ExtractFrom(fs, ms, 1, FALSE)

\* ------------------------------------------------------------------ state
VARIABLES
    pc,            \* the statement the process is at
    status,        \* "running", or how the process ended: "zero" / "nonzero"
    error,         \* the uncaught exception, "" if none
    kinds,         \* directory tree: path -> "absent" | "dir" | "file"
    files,         \* content of the model directory: name -> content
    evalFile,      \* evaluation.json in the output directory: [exists, text]
    serialized_model, result, metrics, mae, rmse, report_dict,   \* locals
    log,           \* lines the logger has emitted in this run
    attempted,     \* the steps of this run that were begun, in order
    completed,     \* the steps of this run that ran to their end
    opens,         \* times evaluation.json was opened for writing in this run
    runs,          \* invocations so far, the current one included
    start,         \* file system as the current run found it
    prev           \* outcome of the previous run

vars == <<pc, status, error, kinds, files, evalFile, serialized_model, result,
          metrics, mae, rmse, report_dict, log, attempted, completed, opens,
          runs, start, prev>>

locals == <<serialized_model, result, metrics, mae, rmse, report_dict>>
fsvars == <<kinds, files, evalFile>>
runvars == <<runs, start, prev>>

None == [type |-> "None", h |-> 0]
NoFile == [exists |-> FALSE, text |-> <<>>]
File(text) == [exists |-> TRUE, text |-> text]
OldText == <<"previous">>

Steps == <<"Extract", "LoadMetrics", "BuildWrite">>

Snapshot == [kinds |-> kinds, files |-> files, evalFile |-> evalFile]
NoPrev == [ran |-> FALSE, status |-> "running", evalFile |-> NoFile,
           archive |-> Absent]

InitKinds ==
    {[p \in Paths |-> "absent"]} \cup
    {(processing_dir :> "dir") @@ (model_dir :> m) @@ (output_dir :> o) :
        m \in {"absent", "dir"}, o \in {"absent", "dir", "file"}}

\* the model directory as the mount provides it (or as an earlier run left it)
InitFiles ==
    {(ArchiveName :> a) @@ (PickleName :> p) @@ (OtherName :> o) :
        a \in {Absent, Garbage} \cup Archives,
        p \in {Absent, Garbage, StalePkl},
        o \in {Absent, Garbage}}

Init ==
    /\ pc = "setup"
    /\ status = "running"
    /\ error = ""
    /\ kinds \in InitKinds
    /\ files \in InitFiles
    /\ kinds[model_dir] # "dir" => \A n \in Names : files[n] = Absent
    /\ evalFile \in {NoFile, File(OldText)}
    /\ kinds[output_dir] # "dir" => evalFile = NoFile
    /\ serialized_model = Absent
    /\ result = None
    /\ metrics = None
    /\ mae = None
    /\ rmse = None
    /\ report_dict = None
    /\ log = <<>>
    /\ attempted = <<>>
    /\ completed = <<>>
    /\ opens = 0
    /\ runs = 1
    /\ start = [kinds |-> kinds, files |-> files, evalFile |-> evalFile]
    /\ prev = NoPrev

\* variant: the exception is caught at top level and the process exits 0
Raise_Swallowed(exc) ==
    /\ pc' = "exit"
    /\ status' = "zero"
    /\ error' = exc

\* an uncaught exception: traceback, interpreter exits with status 1
Raise(exc) ==
    /\ pc' = "exit"
    /\ status' = "nonzero"
    /\ error' = exc

Goto(next) ==
    /\ pc' = next
    /\ UNCHANGED <<status, error>>

Line(msg) == [msg |-> msg]

\* lines 1-31: pip install through check_call, imports, logger set-up
Setup ==
    /\ pc = "setup"
    /\ \E installed \in BOOLEAN :
          IF installed THEN Goto("listdir") ELSE Raise("CalledProcessError")
    /\ UNCHANGED <<fsvars, locals, log, attempted, completed, opens, runvars>>

\* lines 34-38: list the model directory
ListModelDir ==
    /\ pc = "listdir"
    /\ IF kinds[model_dir] = "dir"
       THEN /\ Goto("extract")
            /\ log' = log \o <<Line("Starting evaluation."),
                               [msg |-> "listdir", names |-> ListDir(files)]>>
       ELSE /\ Raise("FileNotFoundError")
            /\ log' = Append(log, Line("Starting evaluation."))
    /\ UNCHANGED <<fsvars, locals, attempted, completed, opens, runvars>>

\* variant: a missing archive is taken for an empty one
TarOpen_Lenient(content) ==
    IF content.kind = "absent"
    THEN [ok |-> TRUE, exc |-> "", members |-> <<>>]
    ELSE IF content.kind # "targz"
    THEN [ok |-> FALSE, exc |-> "ReadError", members |-> <<>>]
    ELSE [ok |-> TRUE, exc |-> "", members |-> content.members]

\* tarfile.open(model_path, 'r:gz'): [ok, exc, members]
TarOpen(content) ==
    IF content.kind = "absent"
    THEN [ok |-> FALSE, exc |-> "FileNotFoundError", members |-> <<>>]
    ELSE IF content.kind # "targz"
    THEN [ok |-> FALSE, exc |-> "ReadError", members |-> <<>>]
    ELSE [ok |-> TRUE, exc |-> "", members |-> content.members]

\* lines 40-45: open model.tar.gz as a gzipped tar and extract every member
\* into the model directory
Extract ==
    /\ pc = "extract"
    /\ attempted' = Append(attempted, "Extract")
    /\ log' = Append(log, Line("Loading model."))
    /\ LET tar == TarOpen(files[ArchiveName])
       IN  IF ~tar.ok
           THEN /\ Raise(tar.exc)
                /\ UNCHANGED <<files, completed>>
           ELSE \E out \in ExtractAll(files, tar.members) :
                   /\ files' = out.files
                   /\ IF out.ok
                      THEN /\ Goto("read")
                           /\ completed' = Append(completed, "Extract")
                      ELSE /\ Raise("EOFError")
                           /\ UNCHANGED completed
    /\ UNCHANGED <<kinds, evalFile, locals, opens, runvars>>

\* lines 47-52: list the directory again and read model.pkl from it
ReadPkl ==
    /\ pc = "read"
    /\ attempted' = Append(attempted, "LoadMetrics")
    /\ log' = Append(log, [msg |-> "listdir", names |-> ListDir(files)])
    /\ IF files[PickleName].kind = "absent"
       THEN /\ Raise("FileNotFoundError")
            /\ UNCHANGED serialized_model
       ELSE /\ Goto("loads")
            /\ serialized_model' = files[PickleName]
    /\ UNCHANGED <<fsvars, result, metrics, mae, rmse, report_dict, completed,
                   opens, runvars>>

\* cloudpickle.loads(data): [ok, obj]
Loads(data) ==
    IF data.kind = "pkl" THEN [ok |-> TRUE, obj |-> data.obj]
    ELSE [ok |-> FALSE, obj |-> None]

\* lines 54-56: unpickle the bytes, take the metrics attribute of the result
Deserialize ==
    /\ pc = "loads"
    /\ LET r == Loads(serialized_model)
       IN  IF ~r.ok
           THEN /\ Raise("UnpicklingError")
                /\ UNCHANGED <<result, metrics>>
           ELSE IF ~r.obj.hasMetrics
           THEN /\ Raise("AttributeError")
                /\ result' = r.obj
                /\ UNCHANGED metrics
           ELSE /\ Goto("metrics")
                /\ result' = r.obj
                /\ metrics' = r.obj.metrics
    /\ UNCHANGED <<fsvars, serialized_model, mae, rmse, report_dict, log,
                   attempted, completed, opens, runvars>>

\* variant: metrics.get(key, 0.0)
Subscript_Default(m, key) ==
    IF key \in DOMAIN m THEN [ok |-> TRUE, v |-> m[key]]
    ELSE [ok |-> TRUE, v |-> PyFloat(0)]

\* metrics[key]: [ok, v]; a missing key raises KeyError
Subscript(m, key) ==
    IF key \in DOMAIN m THEN [ok |-> TRUE, v |-> m[key]]
    ELSE [ok |-> FALSE, v |-> None]

\* lines 60-62: the two subscripts, valid-mae first
GetMetrics ==
    /\ pc = "metrics"
    /\ log' = Append(log, Line("extracting metrics."))
    /\ LET a == Subscript(metrics, MaeKey)
           r == Subscript(metrics, RmseKey)
       IN  IF ~a.ok
           THEN /\ Raise("KeyError")
                /\ UNCHANGED <<mae, rmse, completed>>
           ELSE IF ~r.ok
           THEN /\ Raise("KeyError")
                /\ mae' = a.v
                /\ UNCHANGED <<rmse, completed>>
           ELSE /\ Goto("build")
                /\ mae' = a.v
                /\ rmse' = r.v
                /\ completed' = Append(completed, "LoadMetrics")
    /\ UNCHANGED <<fsvars, serialized_model, result, metrics, report_dict,
                   attempted, opens, runvars>>

\* variant: the two values placed under each other's key
ReportDict_Swapped(a, r) ==
    Dict(<<Item("regression_metrics",
                Dict(<<Item("mae", Dict(<<Item("value", r)>>)),
                       Item("rmse", Dict(<<Item("value", a)>>))>>))>>)

\* lines 63-72: the report literal
ReportDict(a, r) ==
    Dict(<<Item("regression_metrics",
                Dict(<<Item("mae", Dict(<<Item("value", a)>>)),
                       Item("rmse", Dict(<<Item("value", r)>>))>>))>>)

BuildReport ==
    /\ pc = "build"
    /\ attempted' = Append(attempted, "BuildWrite")
    /\ report_dict' = ReportDict(mae, rmse)
    /\ Goto("mkdir")
    /\ UNCHANGED <<fsvars, serialized_model, result, metrics, mae, rmse, log,
                   completed, opens, runvars>>

\* lines 74-75: pathlib.Path(output_dir).mkdir(parents=True, exist_ok=True)
MakeOutputDir ==
    /\ pc = "mkdir"
    /\ LET r == Mkdir(kinds, output_dir, Parents, ExistOk)
       IN  /\ kinds' = r.kinds
           /\ IF r.ok THEN Goto("log") ELSE Raise("FileExistsError")
    /\ UNCHANGED <<files, evalFile, locals, log, attempted, completed, opens,
                   runvars>>

ReportMsg == "Writing out evaluation report with rmse: "

\* variant: the log line carries the mae
LogReport_Mae ==
    /\ pc = "log"
    /\ log' = Append(log, [msg |-> ReportMsg, arg |-> FormatF(mae)])
    /\ Goto("write")
    /\ UNCHANGED <<fsvars, locals, attempted, completed, opens, runvars>>

\* lines 77-78: the log line with the rmse, formatted with %f
LogReport ==
    /\ pc = "log"
    /\ log' = Append(log, [msg |-> ReportMsg, arg |-> FormatF(rmse)])
    /\ Goto("write")
    /\ UNCHANGED <<fsvars, locals, attempted, completed, opens, runvars>>

\* variant: the file is opened for appending
OpenMode_Append == "a"
OpenMode == "w"

\* variant: opening does not truncate
Opened_Keep(file, mode) == file.text

\* open(path, mode) for writing: the text the file starts with
Opened(file, mode) == IF mode = "w" THEN <<>> ELSE file.text

\* lines 79-80: open evaluation.json, then evaluate json.dumps(report_dict)
\* and write its result; the with-block closes the file either way.  The
\* script ends here: status zero.
WriteReport ==
    /\ pc = "write"
    /\ opens' = opens + 1
    /\ LET f == Opened(evalFile, OpenMode)
           d == Dumps(report_dict)
       IN  IF d.ok
           THEN /\ evalFile' = File(f \o d.text)
                /\ completed' = Append(completed, "BuildWrite")
                /\ pc' = "exit"
                /\ status' = "zero"
                /\ UNCHANGED error
           ELSE /\ evalFile' = File(f)
                /\ Raise("TypeError")
                /\ UNCHANGED completed
    /\ UNCHANGED <<kinds, files, locals, log, attempted, runvars>>

\* the pipeline runner invokes the script again on the same mounts
Rerun ==
    /\ pc = "exit"
    /\ runs < MaxRuns
    /\ runs' = runs + 1
    /\ prev' = [ran |-> TRUE, status |-> status, evalFile |-> evalFile,
                archive |-> start.files[ArchiveName]]
    /\ start' = Snapshot
    /\ pc' = "setup"
    /\ status' = "running"
    /\ error' = ""
    /\ serialized_model' = Absent
    /\ result' = None
    /\ metrics' = None
    /\ mae' = None
    /\ rmse' = None
    /\ report_dict' = None
    /\ log' = <<>>
    /\ attempted' = <<>>
    /\ completed' = <<>>
    /\ opens' = 0
    /\ UNCHANGED fsvars

Next ==
    \/ Setup
    \/ ListModelDir
    \/ Extract
    \/ ReadPkl
    \/ Deserialize
    \/ GetMetrics
    \/ BuildReport
    \/ MakeOutputDir
    \/ LogReport
    \/ WriteReport
    \/ Rerun

Spec == Init /\ [][Next]_vars

\* ================================================================= claims
\* the archive the current run was started on
StartArchive == start.files[ArchiveName]

HasMember(a, n) == a.kind = "targz" /\ \E i \in 1..Len(a.members) : a.members[i].name = n
MemberContent(a, n) ==
    a.members[CHOOSE i \in 1..Len(a.members) : a.members[i].name = n].content

\* a well-formed archive: a valid tar stream whose model.pkl unpickles to an
\* object with a metrics mapping holding both keys
WellFormed(a) ==
    /\ HasMember(a, PickleName)
    /\ MemberContent(a, PickleName).kind = "pkl"
    /\ MemberContent(a, PickleName).obj.hasMetrics
    /\ MetricKeys \subseteq DOMAIN MemberContent(a, PickleName).obj.metrics
ArchiveMetric(a, key) == MemberContent(a, PickleName).obj.metrics[key]

Q(k) == <<"\"", k, "\"">>
\* the report text for float values of m and r hundredths, written out
ReportText(m, r) ==
    <<"{">> \o Q("regression_metrics") \o <<": ", "{">> \o
    Q("mae") \o <<": ", "{">> \o Q("value") \o <<": ">> \o FloatRepr(m) \o
    <<"}", ", ">> \o
    Q("rmse") \o <<": ", "{">> \o Q("value") \o <<": ">> \o FloatRepr(r) \o
    <<"}", "}", "}">>

\* the run had what it needs from outside the archive: the installation
\* succeeded, the output path is not taken by a non-directory, and the
\* archive does not carry a member under its own name
C1_Granted ==
    /\ error # "CalledProcessError"
    /\ start.kinds[output_dir] # "file"
    /\ ~HasMember(StartArchive, ArchiveName)

C1_Serviceable ==
    /\ WellFormed(StartArchive)
    /\ C1_Granted
    /\ ArchiveMetric(StartArchive, MaeKey).type = "float"
    /\ ArchiveMetric(StartArchive, RmseKey).type = "float"

C2_AbsentArchive ==
    StartArchive.kind = "absent" =>
        /\ pc \in {"setup", "listdir", "extract", "exit"}
        /\ pc = "exit" => status = "nonzero"
        /\ "Extract" \in {attempted[i] : i \in 1..Len(attempted)} =>
              (error = "FileNotFoundError" /\ completed = <<>>)
        /\ kinds = start.kinds
        /\ evalFile = start.evalFile
        /\ opens = 0

C2_Witness ==
    /\ StartArchive.kind = "absent"
    /\ kinds[model_dir] = "dir"
    /\ pc = "exit"
    /\ attempted = <<"Extract">>
    /\ status = "nonzero"
    /\ ~evalFile.exists

\* the unpickled object has a metrics mapping that lacks a required key
LacksMetric == metrics # None /\ ~(MetricKeys \subseteq DOMAIN metrics)

\* C3: if the metrics mapping lacks valid-rmse or valid-mae the process ends
\* non-zero (KeyError) before the output is touched: the output directory is
\* not created and evaluation.json is not opened, truncated or written.
C3_MissingMetric ==
    LacksMetric =>
        /\ pc \in {"metrics", "exit"}
        /\ pc = "exit" => (status = "nonzero" /\ error = "KeyError")
        /\ kinds = start.kinds
        /\ evalFile = start.evalFile
        /\ opens = 0

C3_Witness ==
    /\ LacksMetric
    /\ MaeKey \in DOMAIN metrics
    /\ pc = "exit"
    /\ error = "KeyError"
    /\ start.kinds[output_dir] = "absent"
    /\ kinds[output_dir] = "absent"

\* C4: a second run on the same model.tar.gz, started on the file system
\* the first, successful run left behind, ends with evaluation.json
\* byte-identical to what the first run wrote.
C4_Idempotent ==
    (pc = "exit" /\ prev.ran /\ prev.status = "zero"
        /\ StartArchive = prev.archive) =>
            evalFile = prev.evalFile

\* the second run went through and wrote the report again
C4_Witness ==
    /\ pc = "exit"
    /\ prev.ran
    /\ prev.status = "zero"
    /\ StartArchive = prev.archive
    /\ status = "zero"
    /\ opens = 1
    /\ evalFile.exists

\* C5: when the output directory is absent the mkdir step creates it and the
\* run goes on to the write (it does not fail there); when it exists the step
\* changes nothing and does not fail; past the step the directory exists.
C5_OutputDir ==
    /\ [](pc \in {"log", "write"} => kinds[output_dir] = "dir")
    /\ []((pc = "exit" /\ completed = <<"Extract", "LoadMetrics">>
             /\ start.kinds[output_dir] # "file") =>
               (opens = 1 /\ evalFile.exists /\ kinds[output_dir] = "dir"))
    /\ [][(pc = "mkdir" /\ kinds[output_dir] = "absent") =>
            /\ kinds' = [kinds EXCEPT ![output_dir] = "dir"]
            /\ pc' = "log"
            /\ status' = "running"]_vars
    /\ [][(pc = "mkdir" /\ kinds[output_dir] = "dir") =>
            /\ UNCHANGED <<kinds, evalFile>>
            /\ pc' = "log"
            /\ status' = "running"]_vars

C5_Witness ==
    /\ pc = "exit"
    /\ status = "zero"
    /\ start.kinds[output_dir] = "absent"
    /\ kinds[output_dir] = "dir"
    /\ evalFile.exists

Prefix(s, t) == Len(s) <= Len(t) /\ s = SubSeq(t, 1, Len(s))

\* C6: the steps Extract, Load Metrics, Build & Write are each begun at most
\* once and in that order, a step is begun only when the one before it
\* completed, a failure ends the process at once with non-zero status, and
\* the status is zero exactly when all three completed, evaluation.json then
\* holding the report of this run's metrics.
C6_FatalFailure ==
    /\ Prefix(attempted, Steps)
    /\ Prefix(completed, attempted)
    /\ Len(attempted) <= Len(completed) + 1
    /\ error # "" => (pc = "exit" /\ status = "nonzero")
    /\ pc = "exit" <=> status # "running"
    /\ status = "nonzero" => (error # "" /\ completed # Steps)
    /\ status = "zero" <=> (pc = "exit" /\ completed = Steps)
    /\ status = "zero" =>
          evalFile = File(ReportText(metrics[MaeKey].h, metrics[RmseKey].h))

C6_Witness ==
    /\ pc = "exit"
    /\ status = "nonzero"
    /\ attempted = <<"Extract", "LoadMetrics">>
    /\ completed = <<"Extract">>

\* C7: model.tar.gz has the same content after the run as before it.
C7_ArchiveReadOnly == files[ArchiveName] = StartArchive

\* C8: evaluation.json is opened for writing at most once in a run, only
\* after the report object is built and the log line with the rmse value is
\* out; before that the file is as the run found it, after it no step
\* changes it.
C8_WrittenOnce ==
    /\ [](opens <= 1)
    /\ [](opens = 0 => evalFile = start.evalFile)
    /\ [](opens = 1 =>
            /\ report_dict = ReportDict(mae, rmse)
            /\ \E i \in 1..Len(log) :
                  log[i].msg = ReportMsg /\ log[i].arg = FormatF(rmse))
    /\ [][opens = 1 => evalFile' = evalFile]_vars

C8_Witness ==
    /\ pc = "exit"
    /\ opens = 1
    /\ status = "zero"
    /\ start.evalFile = File(OldText)
    /\ evalFile # start.evalFile

\* C9: if the archive does not unpack to include model.pkl the run fails and
\* leaves evaluation.json alone, whatever the model directory held before.
C9_FromArchive ==
    (pc = "exit" /\ ~HasMember(StartArchive, PickleName)) =>
        (status = "nonzero" /\ evalFile = start.evalFile)

\* C10 as stated: every run that ends non-zero leaves evaluation.json as it
\* found it, a failure while serializing the report included.
C10_Original ==
    (pc = "exit" /\ status = "nonzero") => evalFile = start.evalFile

\* C10 (amended): a run that ends non-zero before evaluation.json is opened
\* (installation, Extract, Load Metrics, creation of the output directory)
\* leaves the file as it found it, absent if it was absent; a run that fails
\* while serializing the report has already opened the file for writing and
\* leaves it existing and empty, its earlier content gone.
C10_FailedRun ==
    (pc = "exit" /\ status = "nonzero") =>
        IF error = "TypeError"
        THEN opens = 1 /\ evalFile = File(<<>>)
        ELSE opens = 0 /\ evalFile = start.evalFile

C10_Witness ==
    /\ pc = "exit"
    /\ status = "nonzero"
    /\ error = "TypeError"
    /\ start.evalFile = File(OldText)
    /\ evalFile = File(<<>>)

====
